---- MODULE Spec2Model ----
(***************************************************************************)
(* Model of the photo de-duplication engine of straya-mapp:                *)
(*   preprocessing/remove_duplicates.py      (apply_threshold, DFS)        *)
(*   preprocessing/cluster_similar_images.py (threshold sweep, BFS, main)  *)
(*   preprocessing/delete_helpers.py         (sidecar-aware deletion)      *)
(*                                                                         *)
(* A file name is the sequence of its character codes, so that len() and   *)
(* the ordering of sorted() are computed and not tabulated.  A resolved    *)
(* path is a record [dir, name]: dir the sequence of directory components, *)
(* name the file name.  All files that take part in clustering live in one *)
(* directory (glob is not recursive), so Path ordering there is the        *)
(* ordering of the names.                                                  *)
(***************************************************************************)
EXTENDS Integers, Sequences, FiniteSets, TLC

VARIABLES
  task,          \* which entry point this behaviour exercises
  pairs,         \* argument of find_connected_components
  hashes,        \* fingerprint map: file name -> bit vector
  thresholds,    \* argument of evaluate_thresholds
  clustersDfs,   \* result of remove_duplicates.find_connected_components
  clustersBfs,   \* result of cluster_similar_images.find_connected_components
  results,       \* result of evaluate_thresholds
  called,        \* the functions that have returned in this behaviour
  members,       \* the list handed to select_representative
  keeper,        \* what select_representative returned
  present,       \* the resolved paths that are regular files (is_file())
  locked,        \* the resolved paths whose unlink() raises (permission denied)
  gone,          \* the files another process removes between the scan of the
                 \* directory and the direct deletion loop
  sidecar,       \* the content of image_data.json on disk
  targets,       \* the decision set handed to remove_paths_from_image_json
  delete_files,  \* its delete_files argument
  rp,            \* the frame of remove_paths_from_image_json
  run,           \* what the current invocation has done so far
  runs,          \* the invocations that have ended, oldest first
  is_dir,        \* image_dir.is_dir()
  dhash,         \* what compute_dhash returns for each file of image_dir
  helper,        \* delete_helpers.py lies beside cluster_similar_images.py
  threshold,     \* the threshold argument of apply_threshold
  applied,       \* the calls of apply_threshold that have ended, oldest first
  main,          \* the frame of cluster_similar_images.main
  retry          \* the frame of retry_upload.retry_failed_uploads, its file and log

clusterVars == <<pairs, hashes, thresholds, clustersDfs, clustersBfs, results,
                 called, members, keeper>>
diskVars == <<present, locked, gone, sidecar>>
deleteVars == <<targets, delete_files, rp, run, runs>>
\* what the steps of remove_paths_from_image_json leave alone
progVars == <<is_dir, dhash, helper, threshold, applied, main, retry>>
callerVars == <<task, clusterVars, progVars>>
vars == <<task, clusterVars, diskVars, deleteVars, progVars>>

----------------------------------------------------------------------------
(* File names and their ordering *)

Ext == <<46, 106, 112, 103>>          \* ".jpg"
FA  == <<97>> \o Ext                  \* "a.jpg"
FAB == <<97, 98>> \o Ext              \* "ab.jpg"
FBB == <<98, 98>> \o Ext              \* "bb.jpg"
FCD == <<99, 100>> \o Ext             \* "cd.jpg"

Pool == {FA, FAB, FBB, FCD}

\* str.__lt__: lexicographic on the character codes, a proper prefix first
RECURSIVE StrLess(_, _)
StrLess(s, t) ==
  IF t = <<>> THEN FALSE
  ELSE IF s = <<>> THEN TRUE
  ELSE IF Head(s) # Head(t) THEN Head(s) < Head(t)
  ELSE StrLess(Tail(s), Tail(t))

\* sorted(S) for a set of names
RECURSIVE Sorted(_)
Sorted(S) ==
  IF S = {} THEN <<>>
  ELSE LET m == CHOOSE x \in S : \A y \in S \ {x} : StrLess(x, y)
       IN <<m>> \o Sorted(S \ {m})

Range(s) == {s[i] : i \in DOMAIN s}

\* the sequences over S of length at most n
RECURSIVE SeqsUpTo(_, _)
SeqsUpTo(S, n) ==
  IF n = 0 THEN {<<>>}
  ELSE LET shorter == SeqsUpTo(S, n - 1)
       IN shorter \cup {Append(q, x) : q \in {r \in shorter : Len(r) = n - 1}, x \in S}

----------------------------------------------------------------------------
(* find_connected_components: the adjacency structure *)

AppendNew(seq, x) == IF x \in Range(seq) THEN seq ELSE Append(seq, x)

\* keys of the defaultdict in insertion order: graph[a] is touched before
\* graph[b] for every pair (a, b)
RECURSIVE GraphKeys(_, _)
GraphKeys(ps, acc) ==
  IF ps = <<>> THEN acc
  ELSE GraphKeys(Tail(ps), AppendNew(AppendNew(acc, Head(ps)[1]), Head(ps)[2]))

\* only graph[a].add(b): the reverse edge forgotten
Neighbours_directed(ps, n) == {p[2] : p \in {q \in Range(ps) : q[1] = n}}

Neighbours(ps, n) ==
  {p[2] : p \in {q \in Range(ps) : q[1] = n}} \cup
  {p[1] : p \in {q \in Range(ps) : q[2] = n}}

BuildGraph(ps) ==
  LET keys == GraphKeys(ps, <<>>)
  IN [keys |-> keys, adj |-> [n \in Range(keys) |-> Neighbours(ps, n)]]

\* iteration over a Python set: some fixed order of its members (the results
\* below are sets that are sorted afterwards, so the order cannot show)
SetIter(S) == Sorted(S)

----------------------------------------------------------------------------
(* remove_duplicates.find_connected_components: recursive depth-first *)

RECURSIVE dfs(_, _, _)
RECURSIVE dfsNeighbours(_, _, _)
dfs(graph, node, st) ==
  IF node \in st.visited THEN st
  ELSE dfsNeighbours(graph, SetIter(graph.adj[node]),
                     [visited |-> st.visited \cup {node},
                      comp    |-> st.comp \cup {node}])

dfsNeighbours(graph, nbs, st) ==
  IF nbs = <<>> THEN st
  ELSE dfsNeighbours(graph, Tail(nbs),
                     IF Head(nbs) \notin st.visited
                       THEN dfs(graph, Head(nbs), st)
                       ELSE st)

\* the nodes a component has visited are forgotten after it
RECURSIVE DfsLoop_visited_forgotten(_, _, _, _)
DfsLoop_visited_forgotten(graph, keys, visited, clusters) ==
  IF keys = <<>> THEN clusters
  ELSE LET st == dfs(graph, Head(keys), [visited |-> {}, comp |-> {}])
       IN DfsLoop_visited_forgotten(graph, Tail(keys), {},
                    IF Cardinality(st.comp) > 1
                      THEN Append(clusters, Sorted(st.comp))
                      ELSE clusters)

RECURSIVE DfsLoop(_, _, _, _)
DfsLoop(graph, keys, visited, clusters) ==
  IF keys = <<>> THEN clusters
  ELSE IF Head(keys) \in visited
    THEN DfsLoop(graph, Tail(keys), visited, clusters)
    ELSE LET st == dfs(graph, Head(keys), [visited |-> visited, comp |-> {}])
         IN DfsLoop(graph, Tail(keys), st.visited,
                    IF Cardinality(st.comp) > 1
                      THEN Append(clusters, Sorted(st.comp))
                      ELSE clusters)

find_connected_components_dfs(ps) ==
  LET graph == BuildGraph(ps) IN DfsLoop(graph, graph.keys, {}, <<>>)

----------------------------------------------------------------------------
(* cluster_similar_images.find_connected_components: queue-based breadth-first *)

\* for neighbor in graph.get(curr, []): if neighbor not in visited: ...
RECURSIVE bfsNeighbours(_, _)
bfsNeighbours(nbs, st) ==
  IF nbs = <<>> THEN st
  ELSE bfsNeighbours(Tail(nbs),
                     IF Head(nbs) \notin st.visited
                       THEN [st EXCEPT !.visited = @ \cup {Head(nbs)},
                                       !.q = Append(@, Head(nbs))]
                       ELSE st)

\* while head < len(q): (head counts from 1 here)
RECURSIVE bfs(_, _)
bfs(graph, st) ==
  IF st.head > Len(st.q) THEN st
  ELSE LET curr == st.q[st.head]
       IN bfs(graph,
              bfsNeighbours(SetIter(graph.adj[curr]),
                            [st EXCEPT !.head = @ + 1,
                                       !.comp = @ \cup {curr}]))

\* the members appended in the order the queue found them
RECURSIVE BfsLoop_unsorted(_, _, _, _)
BfsLoop_unsorted(graph, keys, visited, clusters) ==
  IF keys = <<>> THEN clusters
  ELSE IF Head(keys) \in visited
    THEN BfsLoop_unsorted(graph, Tail(keys), visited, clusters)
    ELSE LET st == bfs(graph, [q |-> <<Head(keys)>>, head |-> 1,
                               visited |-> visited \cup {Head(keys)},
                               comp |-> {}])
         IN BfsLoop_unsorted(graph, Tail(keys), st.visited,
                             IF Cardinality(st.comp) > 1
                               THEN Append(clusters, st.q)
                               ELSE clusters)

RECURSIVE BfsLoop(_, _, _, _)
BfsLoop(graph, keys, visited, clusters) ==
  IF keys = <<>> THEN clusters
  ELSE IF Head(keys) \in visited
    THEN BfsLoop(graph, Tail(keys), visited, clusters)
    ELSE LET st == bfs(graph, [q |-> <<Head(keys)>>, head |-> 1,
                               visited |-> visited \cup {Head(keys)},
                               comp |-> {}])
         IN BfsLoop(graph, Tail(keys), st.visited,
                    IF Cardinality(st.comp) > 1
                      THEN Append(clusters, Sorted(st.comp))
                      ELSE clusters)

find_connected_components_bfs(ps) ==
  LET graph == BuildGraph(ps) IN BfsLoop(graph, graph.keys, {}, <<>>)

----------------------------------------------------------------------------
(* select_representative: min(cluster, key=lambda p: len(p.name)) *)

\* the last of several minimal elements kept
RECURSIVE MinByLen_last(_, _)
MinByLen_last(best, rest) ==
  IF rest = <<>> THEN best
  ELSE MinByLen_last(IF Len(Head(rest)) <= Len(best) THEN Head(rest) ELSE best,
                     Tail(rest))

\* min() keeps the first of several minimal elements
RECURSIVE MinByLen(_, _)
MinByLen(best, rest) ==
  IF rest = <<>> THEN best
  ELSE MinByLen(IF Len(Head(rest)) < Len(best) THEN Head(rest) ELSE best,
                Tail(rest))

select_representative(cluster) == MinByLen(Head(cluster), Tail(cluster))

----------------------------------------------------------------------------
(* Fingerprints and the threshold sweep *)

\* ImageHash.__sub__: the number of differing bits
Hamming(h1, h2) == Cardinality({i \in DOMAIN h1 : h1[i] # h2[i]})

\* (i, j) for i in range(n) for j in range(i + 1, n), counted from 1
RECURSIVE IndexPairs(_, _, _)
IndexPairs(i, j, n) ==
  IF i > n THEN <<>>
  ELSE IF j > n THEN IndexPairs(i + 1, i + 2, n)
  ELSE <<<<i, j>>>> \o IndexPairs(i, j + 1, n)

\* list(hashes.keys()): the callers insert the files in sorted order
FilesList(hs) == Sorted(DOMAIN hs)

Distances(hs) ==
  LET files_list == FilesList(hs)
      ij == IndexPairs(1, 2, Len(files_list))
  IN [k \in DOMAIN ij |->
        <<ij[k][1], ij[k][2],
          Hamming(hs[files_list[ij[k][1]]], hs[files_list[ij[k][2]]])>>]

\* the comparison turned round
WithinThreshold_inverted(d, thr) == d >= thr

\* the bound taken as exclusive
WithinThreshold_strict(d, thr) == d < thr

\* if d <= thr
WithinThreshold(d, thr) == d <= thr

\* the similar pairs at one threshold
SimilarPairs(hs, thr) ==
  LET files_list == FilesList(hs)
      Close(t) == WithinThreshold(t[3], thr)
      sel == SelectSeq(Distances(hs), Close)
  IN [k \in DOMAIN sel |-> <<files_list[sel[k][1]], files_list[sel[k][2]]>>]

\* the keeper of each cluster counted too
RECURSIVE SumSizesMinusOne_sizes(_)
SumSizesMinusOne_sizes(clusters) ==
  IF clusters = <<>> THEN 0
  ELSE Len(Head(clusters)) + SumSizesMinusOne_sizes(Tail(clusters))

\* sum(len(c) - 1 for c in clusters)
RECURSIVE SumSizesMinusOne(_)
SumSizesMinusOne(clusters) ==
  IF clusters = <<>> THEN 0
  ELSE (Len(Head(clusters)) - 1) + SumSizesMinusOne(Tail(clusters))

evaluate_thresholds(hs, thrs) ==
  [thr \in Range(thrs) |->
     LET clusters == find_connected_components_bfs(SimilarPairs(hs, thr))
     IN [clusters |-> clusters, to_delete |-> SumSizesMinusOne(clusters)]]

----------------------------------------------------------------------------
(* Paths, the sidecar and its records *)

NoPaths == {}

Web == <<"web">>              \* image_dir; main passes it as base_dir too

\* image_dir / name, resolved
InDir(n) == [dir |-> Web, name |-> n]

\* a path string of a record: relative or absolute
Rel(d, n) == [abs |-> FALSE, dir |-> d, name |-> n]
Abs(d, n) == [abs |-> TRUE, dir |-> d, name |-> n]

\* item.get(key) of a missing key, or "": not truthy
Empty == Rel(<<>>, <<>>)

\* every path string taken as relative to base_dir
Resolve_always_relative(base_dir, p) == [dir |-> base_dir \o p.dir, name |-> p.name]

\* (base_dir / p).resolve() if not p.is_absolute() else p.resolve()
Resolve(base_dir, p) ==
  [dir |-> IF p.abs THEN p.dir ELSE base_dir \o p.dir, name |-> p.name]

\* the loaded data written back as it was, the filtered list dropped
save_image_json_unfiltered(original_data, images) == original_data

\* always the bare list
save_image_json_bare(original_data, images) == [kind |-> "list", items |-> images]

\* the value save_image_json dumps
save_image_json(original_data, images) ==
  IF original_data.kind = "dict"
    THEN [kind |-> "dict",
          fields |-> [k \in DOMAIN original_data.fields \cup {"images"} |->
                        IF k = "images" THEN images ELSE original_data.fields[k]]]
    ELSE [kind |-> "list", items |-> images]

\* whatever cannot be read taken as an empty list
load_image_json_lenient(file) ==
  IF file.kind = "dict"
    THEN [raised |-> "", data |-> file,
          images |-> IF "images" \in DOMAIN file.fields
                       THEN file.fields["images"] ELSE <<>>]
  ELSE IF file.kind = "list"
    THEN [raised |-> "", data |-> file, images |-> file.items]
  ELSE [raised |-> "", data |-> [kind |-> "list", items |-> <<>>], images |-> <<>>]

\* load_image_json: (data, images), or the exception it raises
load_image_json(file) ==
  IF file.kind = "absent" THEN [raised |-> "FileNotFoundError"]
  ELSE IF file.kind = "malformed" THEN [raised |-> "JSONDecodeError"]
  ELSE IF file.kind = "dict"
    THEN [raised |-> "", data |-> file,
          images |-> IF "images" \in DOMAIN file.fields
                       THEN file.fields["images"] ELSE <<>>]
  ELSE IF file.kind = "list"
    THEN [raised |-> "", data |-> file, images |-> file.items]
  ELSE [raised |-> "ValueError"]

\* the initial values of the parts a behaviour does not exercise
NoCluster ==
  /\ pairs = <<>> /\ hashes = <<>> /\ thresholds = <<>>
  /\ clustersDfs = <<>> /\ clustersBfs = <<>> /\ results = <<>>
  /\ called = {}
  /\ members = <<>> /\ keeper = <<>>

NoDisk ==
  /\ present = NoPaths /\ locked = NoPaths /\ gone = NoPaths
  /\ sidecar = [kind |-> "absent"]

IdleFrame ==
  [pc |-> "idle", error |-> "", original_data |-> [kind |-> "absent"],
   images |-> <<>>, i |-> 1, kept_images |-> <<>>,
   removed_count |-> 0, deleted_count |-> 0, missing_count |-> 0]

NoDeletion ==
  /\ targets = NoPaths /\ delete_files = FALSE
  /\ rp = IdleFrame /\ run = <<>> /\ runs = <<>>

\* choice and answer are what the operator typed; present0 and sidecar0 are the
\* disk as it was when main started
NotStarted == [pc |-> "start", min_threshold |-> 0, max_threshold |-> 0, step |-> 1,
               files |-> <<>>, choice |-> "", chosen_threshold |-> 0,
               to_delete |-> <<>>, answer |-> "", exit |-> "", said |-> "",
               present0 |-> {}, sidecar0 |-> [kind |-> "absent"]]

\* file and backup are failed_uploads.json and failed_uploads.json.backup;
\* attempts are the outcomes of the upload attempts of the call in progress,
\* calls the calls of upload_file_with_retry that have returned
NoRetry == [pc |-> "start", file |-> [kind |-> "absent"], backup |-> [kind |-> "absent"],
            file0 |-> [kind |-> "absent"],
            max_retries |-> 0, failed_uploads |-> <<>>, i |-> 1, attempt |-> 0,
            attempts |-> <<>>, still_failed |-> <<>>, calls |-> <<>>, exit |-> ""]

NoPrograms ==
  /\ is_dir = FALSE /\ dhash = <<>> /\ helper = FALSE
  /\ threshold = 0 /\ applied = <<>> /\ main = NotStarted
  /\ retry = NoRetry

----------------------------------------------------------------------------
(* remove_paths_from_image_json *)

\* should_remove: any of the three path-bearing fields resolves to a target
RECURSIVE AnyKeyInTargets(_, _)
AnyKeyInTargets(item, keys) ==
  IF keys = <<>> THEN FALSE
  ELSE IF item[Head(keys)] # Empty
          /\ Resolve(Web, item[Head(keys)]) \in targets THEN TRUE
  ELSE AnyKeyInTargets(item, Tail(keys))

should_remove(item) == AnyKeyInTargets(item, <<"path", "thumbnail", "filename">>)

\* for key in ("path", "thumbnail"): unlink the file when it is one, count it
\* missing when not; an unlink that raises ends the loop
RECURSIVE UnlinkKeys(_, _, _)
UnlinkKeys(item, keys, st) ==
  IF keys = <<>> \/ st.error # "" THEN st
  ELSE IF item[Head(keys)] = Empty THEN UnlinkKeys(item, Tail(keys), st)
  ELSE LET resolved_path == Resolve(Web, item[Head(keys)])
       IN IF resolved_path \in st.present
            THEN IF resolved_path \in locked
                   THEN [st EXCEPT !.error = "PermissionError"]
                   ELSE UnlinkKeys(item, Tail(keys),
                          [st EXCEPT !.present = @ \ {resolved_path},
                                     !.unlinked = @ \cup {resolved_path},
                                     !.deleted_count = @ + 1])
            ELSE UnlinkKeys(item, Tail(keys), [st EXCEPT !.missing_count = @ + 1])

Summary(frame) ==
  [removed_from_json |-> frame.removed_count,
   deleted_files |-> frame.deleted_count,
   missing_files |-> frame.missing_count]

\* the record of an invocation that has ended
Ended(outcome, frame, unlinked, file, files) ==
  [outcome |-> outcome, error |-> frame.error, summary |-> Summary(frame),
   attempted |-> frame.i - 1, unlinked |-> unlinked, writes |-> run.writes,
   sidecar0 |-> run.sidecar0, present0 |-> run.present0,
   sidecar1 |-> file, present1 |-> files]

\* entry and load_image_json
EnterRemovePaths ==
  LET loaded == load_image_json(sidecar)
      start == [sidecar0 |-> sidecar, present0 |-> present,
                unlinked |-> {}, writes |-> 0]
  IN /\ run' = start
     /\ IF loaded.raised # ""
          THEN /\ rp' = [IdleFrame EXCEPT !.pc = "raised", !.error = loaded.raised]
               /\ runs' = Append(runs,
                            [outcome |-> "raised", error |-> loaded.raised,
                             summary |-> Summary(IdleFrame), attempted |-> 0,
                             unlinked |-> {}, writes |-> 0,
                             sidecar0 |-> sidecar, present0 |-> present,
                             sidecar1 |-> sidecar, present1 |-> present])
          ELSE /\ rp' = [IdleFrame EXCEPT !.pc = "loop",
                                          !.original_data = loaded.data,
                                          !.images = loaded.images]
               /\ runs' = runs
     /\ UNCHANGED <<present, locked, gone, sidecar>>

\* one turn of: for item in images
RemovePathsItem ==
  /\ rp.pc = "loop"
  /\ rp.i <= Len(rp.images)
  /\ LET item == rp.images[rp.i]
     IN IF should_remove(item)
          THEN LET st0 == [present |-> present, unlinked |-> run.unlinked,
                           error |-> "", deleted_count |-> rp.deleted_count,
                           missing_count |-> rp.missing_count]
                   st == IF delete_files
                           THEN UnlinkKeys(item, <<"path", "thumbnail">>, st0)
                           ELSE st0
                   frame == [rp EXCEPT !.removed_count = @ + 1,
                                       !.deleted_count = st.deleted_count,
                                       !.missing_count = st.missing_count,
                                       !.i = @ + 1]
               IN /\ present' = st.present
                  /\ run' = [run EXCEPT !.unlinked = st.unlinked]
                  /\ IF st.error # ""
                       THEN /\ rp' = [frame EXCEPT !.pc = "raised", !.error = st.error]
                            /\ runs' = Append(runs, Ended("raised", rp', st.unlinked,
                                                          sidecar, st.present))
                       ELSE rp' = frame /\ runs' = runs
          ELSE /\ rp' = [rp EXCEPT !.kept_images = Append(@, item), !.i = @ + 1]
               /\ UNCHANGED <<present, run, runs>>
  /\ UNCHANGED <<locked, gone, sidecar, targets, delete_files, callerVars>>

\* the sidecar saved whether or not a record was removed
RemovePathsLoopDone_always_saves ==
  /\ rp.pc = "loop"
  /\ rp.i > Len(rp.images)
  /\ rp' = [rp EXCEPT !.pc = "open"] /\ runs' = runs
  /\ UNCHANGED <<diskVars, targets, delete_files, run, callerVars>>

\* after the loop: if removed_count > 0 the sidecar is saved, else return
RemovePathsLoopDone ==
  /\ rp.pc = "loop"
  /\ rp.i > Len(rp.images)
  /\ IF rp.removed_count > 0
       THEN rp' = [rp EXCEPT !.pc = "open"] /\ runs' = runs
       ELSE /\ rp' = [rp EXCEPT !.pc = "returned"]
            /\ runs' = Append(runs, Ended("returned", rp, run.unlinked, sidecar, present))
  /\ UNCHANGED <<diskVars, targets, delete_files, run, callerVars>>

\* save_image_json: open(out_path, "w") empties the file
SaveOpen ==
  /\ rp.pc = "open"
  /\ sidecar' = [kind |-> "malformed"]
  /\ rp' = [rp EXCEPT !.pc = "dump"]
  /\ run' = [run EXCEPT !.writes = @ + 1]
  /\ UNCHANGED <<present, locked, gone, targets, delete_files, runs, callerVars>>

\* save_image_json: json.dump and close; the summary is returned
SaveDump ==
  /\ rp.pc = "dump"
  /\ sidecar' = save_image_json(rp.original_data, rp.kept_images)
  /\ rp' = [rp EXCEPT !.pc = "returned"]
  /\ runs' = Append(runs, Ended("returned", rp, run.unlinked, sidecar', present))
  /\ UNCHANGED <<present, locked, gone, targets, delete_files, run, callerVars>>

\* the process dies (kill, power loss) while the function runs
Crash ==
  /\ rp.pc \in {"loop", "open", "dump"}
  /\ rp' = [rp EXCEPT !.pc = "crashed"]
  /\ runs' = Append(runs, Ended("crashed", rp, run.unlinked, sidecar, present))
  /\ UNCHANGED <<diskVars, targets, delete_files, run, callerVars>>

RemovePathsStep ==
  \/ RemovePathsItem
  \/ RemovePathsLoopDone
  \/ SaveOpen
  \/ SaveDump

----------------------------------------------------------------------------
(* The deletion coordinator on its own: any sidecar, any decision set *)

MaxRecords == 2
MaxRuns == 2

ItemA      == [path |-> Rel(<<>>, FA), thumbnail |-> Rel(<<"thumbnails">>, FA),
               filename |-> Rel(<<>>, FA)]
ItemAB     == [path |-> Abs(Web, FAB), thumbnail |-> Rel(<<"thumbnails">>, FAB),
               filename |-> Rel(<<>>, FAB)]
\* the record of bb.jpg, which shows a.jpg as its thumbnail
ItemBB     == [path |-> Rel(<<>>, FBB), thumbnail |-> Rel(<<>>, FA),
               filename |-> Rel(<<>>, FBB)]
\* a record whose file lies elsewhere and whose filename is a.jpg
ItemOrigA  == [path |-> Rel(<<"orig">>, FA), thumbnail |-> Empty,
               filename |-> Rel(<<>>, FA)]

ItemPool == {ItemA, ItemAB, ItemBB, ItemOrigA}

FilePaths(item) ==
  {Resolve(Web, item[k]) : k \in {k \in {"path", "thumbnail"} : item[k] # Empty}}

AllPaths == UNION {FilePaths(item) : item \in ItemPool}

Sidecars ==
  LET lists == SeqsUpTo(ItemPool, MaxRecords)
  IN {[kind |-> "list", items |-> l] : l \in lists}
     \cup {[kind |-> "dict",
            fields |-> ("images" :> l) @@ ("metadata" :> "stats")] : l \in lists}
     \cup {[kind |-> "dict", fields |-> ("metadata" :> "stats")],
           [kind |-> "scalar"], [kind |-> "malformed"], [kind |-> "absent"]}

InitDelete ==
  /\ task = "delete"
  /\ NoCluster
  /\ sidecar \in Sidecars
  /\ targets \in SUBSET {InDir(FA), InDir(FAB)}
  /\ present \in {AllPaths \ m : m \in {{}} \cup {{x} : x \in
                     {InDir(FA), InDir(FAB), Resolve(Web, ItemA.thumbnail)}}}
  /\ locked \in {{}} \cup {{x} : x \in
                     {InDir(FA), InDir(FAB), InDir(FBB), Resolve(Web, ItemA.thumbnail)}}
  /\ gone = NoPaths
  /\ delete_files \in BOOLEAN
  /\ rp = IdleFrame /\ run = <<>> /\ runs = <<>>
  /\ NoPrograms

\* a caller applies the decision set, and may apply it again
CallRemovePaths ==
  /\ task = "delete"
  /\ rp.pc \in {"idle", "returned", "raised"}
  /\ Len(runs) < MaxRuns
  /\ EnterRemovePaths
  /\ UNCHANGED <<targets, delete_files, callerVars>>

NextDelete == CallRemovePaths \/ RemovePathsStep \/ Crash

SpecDelete == InitDelete /\ [][NextDelete]_vars

----------------------------------------------------------------------------
(* Inputs of the clustering functions *)

MaxPairs == 3
MaxThreshold == 3

\* fingerprints of one width (hash_size is one parameter of a run)
HashPool == {<<0, 0, 0>>, <<0, 0, 1>>, <<0, 1, 1>>, <<1, 1, 1>>}

\* both callers pair two different files (j > i); either orientation, any order
PairSeqs == SeqsUpTo({p \in Pool \X Pool : p[1] # p[2]}, MaxPairs)

FingerprintMaps == UNION {[D -> HashPool] : D \in SUBSET Pool}

\* list(range(lo, hi + 1, step))
RECURSIVE RangeList(_, _, _)
RangeList(lo, hi, step) ==
  IF lo > hi THEN <<>> ELSE <<lo>> \o RangeList(lo + step, hi, step)

Sweeps == {RangeList(lo, hi, step) : lo \in 0..1, hi \in 0..MaxThreshold, step \in 1..2}

InitCluster ==
  /\ task \in {"components", "sweep"}
  /\ IF task = "components"
       THEN pairs \in PairSeqs /\ hashes = <<>> /\ thresholds = <<>>
       ELSE pairs = <<>> /\ hashes \in FingerprintMaps /\ thresholds \in Sweeps
  /\ clustersDfs = <<>>
  /\ clustersBfs = <<>>
  /\ results = <<>>
  /\ called = {}
  /\ members = <<>> /\ keeper = <<>>
  /\ NoDisk
  /\ NoDeletion
  /\ NoPrograms

CallComponentsDfs ==
  /\ task = "components"
  /\ "dfs" \notin called
  /\ called' = called \cup {"dfs"}
  /\ clustersDfs' = find_connected_components_dfs(pairs)
  /\ UNCHANGED <<task, pairs, hashes, thresholds, clustersBfs, results, members, keeper,
                 diskVars, deleteVars, progVars>>

CallComponentsBfs ==
  /\ task = "components"
  /\ "bfs" \notin called
  /\ called' = called \cup {"bfs"}
  /\ clustersBfs' = find_connected_components_bfs(pairs)
  /\ UNCHANGED <<task, pairs, hashes, thresholds, clustersDfs, results, members, keeper,
                 diskVars, deleteVars, progVars>>

CallEvaluateThresholds ==
  /\ task = "sweep"
  /\ "sweep" \notin called
  /\ called' = called \cup {"sweep"}
  /\ results' = evaluate_thresholds(hashes, thresholds)
  /\ UNCHANGED <<task, pairs, hashes, thresholds, clustersDfs, clustersBfs, members, keeper,
                 diskVars, deleteVars, progVars>>

NextCluster == CallComponentsDfs \/ CallComponentsBfs \/ CallEvaluateThresholds

SpecCluster == InitCluster /\ [][NextCluster]_vars

----------------------------------------------------------------------------
(* select_representative on its own: any list of different names *)

MaxMembers == 3

FB == <<98>> \o Ext                   \* "b.jpg"

NamePool == Pool \cup {FB}

\* the lists of 2 to MaxMembers different names, in any order
MemberLists ==
  {l \in SeqsUpTo(NamePool, MaxMembers) : Len(l) >= 2 /\ Cardinality(Range(l)) = Len(l)}

InitSelect ==
  /\ task = "select"
  /\ pairs = <<>> /\ hashes = <<>> /\ thresholds = <<>>
  /\ clustersDfs = <<>> /\ clustersBfs = <<>> /\ results = <<>>
  /\ called = {}
  /\ members \in MemberLists
  /\ keeper = <<>>
  /\ NoDisk
  /\ NoDeletion
  /\ NoPrograms

CallSelectRepresentative ==
  /\ task = "select"
  /\ "select" \notin called
  /\ called' = called \cup {"select"}
  /\ keeper' = select_representative(members)
  /\ UNCHANGED <<task, pairs, hashes, thresholds, clustersDfs, clustersBfs, results,
                 members, diskVars, deleteVars, progVars>>

NextSelect == CallSelectRepresentative

SpecSelect == InitSelect /\ [][NextSelect]_vars

----------------------------------------------------------------------------
(* The image directory: scan and fingerprints *)

EXTENSIONS ==
  {<<46, 106, 112, 103>>, <<46, 106, 112, 101, 103>>, <<46, 112, 110, 103>>,
   <<46, 119, 101, 98, 112>>, <<46, 104, 101, 105, 99>>,
   <<46, 74, 80, 71>>, <<46, 74, 80, 69, 71>>, <<46, 80, 78, 71>>,
   <<46, 87, 69, 66, 80>>, <<46, 72, 69, 73, 67>>}

HiddenA == <<46, 95>> \o FA                 \* "._a.jpg"
NotesTxt == <<97, 46, 116, 120, 116>>       \* "a.txt"

EndsWith(n, ext) ==
  Len(n) >= Len(ext) /\ SubSeq(n, Len(n) - Len(ext) + 1, Len(n)) = ext

\* f.name.startswith("._")
StartsWithDotUnderscore(n) == Len(n) >= 2 /\ n[1] = 46 /\ n[2] = 95

\* the names of the regular files of image_dir
DirNames(files) == {q.name : q \in {r \in files : r.dir = Web}}

\* sorted(glob("*" + ext) for every ext, without the "._" files)
ScanDir(files) ==
  Sorted({n \in DirNames(files) :
            (\E ext \in EXTENSIONS : EndsWith(n, ext)) /\ ~StartsWithDotUnderscore(n)})

\* compute_dhash returns None
Unreadable == <<>>

compute_dhash(f) == dhash[f]

\* every scanned file gets an entry, an all-zero hash for the unreadable ones
HashAll_with_placeholders(files) ==
  [f \in Range(files) |->
     IF compute_dhash(f) = Unreadable THEN <<0, 0, 0>> ELSE compute_dhash(f)]

\* hashes[f] = h for the files whose h is not None
HashAll(files) ==
  [f \in {g \in Range(files) : compute_dhash(g) # Unreadable} |-> compute_dhash(f)]

----------------------------------------------------------------------------
(* The decision set *)

NonRepresentatives(c, rep) == LET Other(q) == q # rep IN SelectSeq(c, Other)

RECURSIVE Flatten(_)
Flatten(clusters) ==
  IF clusters = <<>> THEN <<>> ELSE Head(clusters) \o Flatten(Tail(clusters))

\* no member is spared
DecisionLists_keeper_listed(clusters) ==
  [to_keep |-> [k \in DOMAIN clusters |-> select_representative(clusters[k])],
   to_delete |-> Flatten(clusters)]

\* apply_threshold: rep to to_keep, every p != rep of the cluster to to_delete
RECURSIVE DecisionLists(_)
DecisionLists(clusters) ==
  IF clusters = <<>> THEN [to_keep |-> <<>>, to_delete |-> <<>>]
  ELSE LET c == Head(clusters)
           rep == select_representative(c)
           rest == DecisionLists(Tail(clusters))
       IN [to_keep |-> <<rep>> \o rest.to_keep,
           to_delete |-> NonRepresentatives(c, rep) \o rest.to_delete]

\* main: [p for c in chosen_clusters for p in c if p != select_representative(c)]
RECURSIVE MainToDelete(_)
MainToDelete(chosen_clusters) ==
  IF chosen_clusters = <<>> THEN <<>>
  ELSE LET c == Head(chosen_clusters)
           Other(q) == q # select_representative(c)
       IN SelectSeq(c, Other) \o MainToDelete(Tail(chosen_clusters))

----------------------------------------------------------------------------
(* remove_duplicates.apply_threshold *)

\* deleted_count incremented before the unlink is tried
RECURSIVE DeleteLoop_counts_before_unlink(_, _)
DeleteLoop_counts_before_unlink(to_delete, st) ==
  IF to_delete = <<>> THEN st
  ELSE LET q == InDir(Head(to_delete))
       IN DeleteLoop_counts_before_unlink(Tail(to_delete),
            IF q \in st.present /\ q \notin locked
              THEN [st EXCEPT !.present = @ \ {q}, !.deleted = @ + 1]
              ELSE [st EXCEPT !.deleted = @ + 1, !.failed = @ + 1])

\* for p in to_delete: try p.unlink() except: failed_del += 1
\* (unlink of a file that is no longer there raises FileNotFoundError)
RECURSIVE DeleteLoop(_, _)
DeleteLoop(to_delete, st) ==
  IF to_delete = <<>> THEN st
  ELSE LET q == InDir(Head(to_delete))
       IN DeleteLoop(Tail(to_delete),
                     IF q \in st.present /\ q \notin locked
                       THEN [st EXCEPT !.present = @ \ {q}, !.deleted = @ + 1]
                       ELSE [st EXCEPT !.failed = @ + 1])

ResultOf(thr, clusters, lists, deleted, failed) ==
  [threshold |-> thr, clusters |-> clusters,
   to_delete |-> lists.to_delete, to_keep |-> lists.to_keep,
   deleted_count |-> deleted, failed_delete_count |-> failed]

Decide(files, thr) ==
  LET clusters == find_connected_components_dfs(SimilarPairs(HashAll(files), thr))
  IN [clusters |-> clusters, lists |-> DecisionLists(clusters)]

\* without delete the lists are not built
apply_threshold_dry_returns_early(thr, delete) ==
  IF ~is_dir THEN [raised |-> "NotADirectoryError", present |-> present]
  ELSE LET files == ScanDir(present)
           none == [to_keep |-> <<>>, to_delete |-> <<>>]
       IN IF Len(files) < 2 \/ ~delete
            THEN [raised |-> "", result |-> ResultOf(thr, <<>>, none, 0, 0),
                  present |-> present]
            ELSE LET d == Decide(files, thr)
                     done == DeleteLoop(d.lists.to_delete,
                               [present |-> present \ gone, deleted |-> 0, failed |-> 0])
                 IN [raised |-> "",
                     result |-> ResultOf(thr, d.clusters, d.lists, done.deleted, done.failed),
                     present |-> done.present]

\* apply_threshold: what it raises or returns, and the files left on disk
apply_threshold(thr, delete) ==
  IF ~is_dir THEN [raised |-> "NotADirectoryError", present |-> present]
  ELSE LET files == ScanDir(present)
           none == [to_keep |-> <<>>, to_delete |-> <<>>]
       IN IF Len(files) < 2
            THEN [raised |-> "", result |-> ResultOf(thr, <<>>, none, 0, 0),
                  present |-> present]
            ELSE LET d == Decide(files, thr)
                     start == [present |-> present, deleted |-> 0, failed |-> 0]
                     done == IF delete /\ d.lists.to_delete # <<>>
                               THEN DeleteLoop(d.lists.to_delete,
                                               [start EXCEPT !.present = @ \ gone])
                               ELSE start
                 IN [raised |-> "",
                     result |-> ResultOf(thr, d.clusters, d.lists, done.deleted, done.failed),
                     present |-> done.present]

MaxApplies == 2

\* the hashes of the files of image_dir in these behaviours
DirHashes == {<<0, 0, 0>>, <<0, 0, 1>>, <<1, 1, 1>>}

Thumb(n) == [dir |-> Web \o <<"thumbnails">>, name |-> n]

\* a directory with some of the pool's files, each readable or not
InitDir ==
  /\ is_dir \in BOOLEAN
  /\ IF is_dir
       THEN \E D \in SUBSET Pool :
              /\ dhash \in [D -> DirHashes \cup {Unreadable}]
              /\ present = {InDir(n) : n \in D \cup {HiddenA, NotesTxt}}
                           \cup {Thumb(n) : n \in D}
       ELSE dhash = <<>> /\ present = {}

InitApply ==
  /\ task = "apply"
  /\ NoCluster
  /\ NoDeletion
  /\ InitDir
  /\ locked \in {{}, {InDir(FAB)}}
  /\ gone \in {{}, {InDir(FBB)}}
  /\ sidecar = [kind |-> "absent"]
  /\ helper = FALSE
  /\ threshold \in 0..MaxThreshold
  /\ applied = <<>>
  /\ main = NotStarted
  /\ retry = NoRetry

\* what a call of apply_threshold leaves in the log
Applied(delete, before, r) ==
  [delete |-> delete, raised |-> r.raised,
   result |-> IF r.raised = "" THEN r.result
              ELSE ResultOf(threshold, <<>>, [to_keep |-> <<>>, to_delete |-> <<>>], 0, 0),
   present0 |-> before, present1 |-> r.present]

\* the export script, or the command line with or without --force
CallApplyThreshold(delete) ==
  /\ task = "apply"
  /\ Len(applied) < MaxApplies
  /\ applied' = Append(applied, Applied(delete, present, apply_threshold(threshold, delete)))
  /\ present' = applied'[Len(applied')].present1
  /\ UNCHANGED <<task, clusterVars, deleteVars, locked, gone, sidecar,
                 is_dir, dhash, helper, threshold, main, retry>>

NextApply == \E delete \in BOOLEAN : CallApplyThreshold(delete)

SpecApply == InitApply /\ [][NextApply]_vars

----------------------------------------------------------------------------
(* cluster_similar_images.main *)

Exit(code, message) == [main EXCEPT !.pc = "exit", !.exit = code, !.said = message]

\* the frame and the disk only: what the steps of main before DELETE leave alone
mainFrame == <<task, pairs, clustersDfs, clustersBfs, called, members, keeper,
               diskVars, deleteVars,
               is_dir, dhash, helper, threshold, applied, retry>>

\* is_dir, glob, sorted, len(files) < 2
MainScan ==
  /\ task = "main"
  /\ main.pc = "start"
  /\ IF ~is_dir THEN main' = Exit("1", "Directory not found")
     ELSE LET files == ScanDir(present)
          IN IF Len(files) < 2
               THEN main' = Exit("0", "At least 2 images are required for comparison.")
               ELSE main' = [main EXCEPT !.pc = "hash", !.files = files]
  /\ UNCHANGED <<mainFrame, hashes, thresholds, results>>

\* the sweep entered with an empty fingerprint map
MainHash_unchecked ==
  /\ task = "main"
  /\ main.pc = "hash"
  /\ hashes' = HashAll(main.files)
  /\ main' = [main EXCEPT !.pc = "sweep"]
  /\ UNCHANGED <<mainFrame, thresholds, results>>

\* hashes = {f: h ... if (h := compute_dhash(f))}; if not hashes: return 1
MainHash ==
  /\ task = "main"
  /\ main.pc = "hash"
  /\ hashes' = HashAll(main.files)
  /\ main' = IF DOMAIN hashes' = {}
               THEN Exit("1", "Could not hash any images.")
               ELSE [main EXCEPT !.pc = "sweep"]
  /\ UNCHANGED <<mainFrame, thresholds, results>>

\* thresholds = list(range(...)); results = evaluate_thresholds(...)
MainSweep ==
  /\ task = "main"
  /\ main.pc = "sweep"
  /\ thresholds' = RangeList(main.min_threshold, main.max_threshold, main.step)
  /\ results' = evaluate_thresholds(hashes, thresholds')
  /\ main' = [main EXCEPT !.pc = "select"]
  /\ UNCHANGED <<mainFrame, hashes>>

\* what the operator may type at "Enter threshold to apply"
Choices ==
  {[text |-> "blank", value |-> 0], [text |-> "junk", value |-> 0]}
  \cup {[text |-> "int", value |-> k] : k \in 0..MaxThreshold}

\* input(), int(choice), chosen_threshold in results, the decision set
MainSelect(choice) ==
  /\ task = "main"
  /\ main.pc = "select"
  /\ LET typed == [main EXCEPT !.choice = choice.text]
     IN main' =
          IF choice.text = "blank" THEN [typed EXCEPT !.pc = "exit", !.exit = "0",
                                                      !.said = "Exiting."]
          ELSE IF choice.text = "junk"
            THEN [typed EXCEPT !.pc = "exit", !.exit = "1",
                               !.said = "Invalid input or interrupted. Exiting."]
          ELSE IF choice.value \notin DOMAIN results
            THEN [typed EXCEPT !.pc = "exit", !.exit = "1", !.said = "Invalid threshold.",
                               !.chosen_threshold = choice.value]
          ELSE LET to_delete == MainToDelete(results[choice.value].clusters)
               IN IF to_delete = <<>>
                    THEN [typed EXCEPT !.pc = "exit", !.exit = "0",
                                       !.said = "No files to delete for this threshold.",
                                       !.chosen_threshold = choice.value]
                    ELSE [typed EXCEPT !.pc = "confirm",
                                       !.chosen_threshold = choice.value,
                                       !.to_delete = to_delete]
  /\ UNCHANGED <<mainFrame, hashes, thresholds, results>>

\* every answer counts as yes
Confirmed_always(answer) == TRUE

\* input(...).strip().lower() == "y"
Confirmed(answer) == answer \in {"y", "Y"}

\* sum(1 for p in to_delete if p.unlink(missing_ok=True)): a missing file is
\* passed over, an unlink that raises ends main
RECURSIVE DirectLoop(_, _)
DirectLoop(to_delete, st) ==
  IF to_delete = <<>> \/ st.error # "" THEN st
  ELSE LET q == InDir(Head(to_delete))
       IN DirectLoop(Tail(to_delete),
                     IF q \notin st.present THEN st
                     ELSE IF q \in locked THEN [st EXCEPT !.error = "PermissionError"]
                     ELSE [st EXCEPT !.present = @ \ {q}])

\* "Continue with deletion?", then the helper if its file is there, else the
\* direct loop
MainConfirm(answer) ==
  /\ task = "main"
  /\ main.pc = "confirm"
  /\ LET typed == [main EXCEPT !.answer = answer]
     IN IF ~Confirmed(answer)
          THEN /\ main' = [typed EXCEPT !.pc = "exit", !.exit = "1", !.said = "Cancelled."]
               /\ UNCHANGED <<present, targets, delete_files, rp, run, runs>>
          ELSE IF helper
            THEN /\ main' = [typed EXCEPT !.pc = "helper"]
                 /\ targets' = {InDir(n) : n \in Range(main.to_delete)}
                 /\ delete_files' = TRUE
                 /\ EnterRemovePaths
            ELSE LET done == DirectLoop(main.to_delete,
                                        [present |-> present \ gone, error |-> ""])
                 IN /\ present' = done.present
                    /\ main' = IF done.error # ""
                                 THEN [typed EXCEPT !.pc = "exit", !.exit = "exception",
                                                    !.said = done.error]
                                 ELSE [typed EXCEPT !.pc = "exit", !.exit = "0",
                                                    !.said = "Deleted 0 file(s)."]
                    /\ UNCHANGED <<targets, delete_files, rp, run, runs>>
  /\ UNCHANGED <<task, clusterVars, locked, gone, sidecar, is_dir, dhash, helper, threshold,
                 applied, retry>>

\* the helper has returned its summary, or what it raised leaves main
MainHelperDone ==
  /\ task = "main"
  /\ main.pc = "helper"
  /\ rp.pc \in {"returned", "raised"}
  /\ main' = IF rp.pc = "returned"
               THEN Exit("0", "Removed from JSON")
               ELSE Exit("exception", rp.error)
  /\ UNCHANGED <<mainFrame, hashes, thresholds, results>>

ItemFor(n) == [path |-> Rel(<<>>, n), thumbnail |-> Rel(<<"thumbnails">>, n),
               filename |-> Rel(<<>>, n)]

\* image_data.json lists the images of the directory, is not there, is no
\* JSON, or is JSON of another shape
DirSidecars(files) ==
  LET items == [k \in DOMAIN files |-> ItemFor(files[k])]
  IN {[kind |-> "absent"], [kind |-> "malformed"], [kind |-> "scalar"],
      [kind |-> "list", items |-> items],
      [kind |-> "dict", fields |-> ("images" :> items) @@ ("metadata" :> "stats")]}

InitMain ==
  /\ task = "main"
  /\ NoCluster
  /\ NoDeletion
  /\ InitDir
  /\ locked \in {{}, {InDir(FAB)}}
  /\ helper \in BOOLEAN
  /\ gone \in IF helper THEN {{}} ELSE {{}, {InDir(FBB)}}
  /\ sidecar \in IF helper THEN DirSidecars(ScanDir(present)) ELSE {[kind |-> "absent"]}
  /\ threshold = 0
  /\ applied = <<>>
  /\ retry = NoRetry
  /\ \E step \in 1..2 :
       main = [NotStarted EXCEPT !.max_threshold = MaxThreshold, !.step = step,
                                 !.present0 = present, !.sidecar0 = sidecar]

NextMain ==
  \/ MainScan
  \/ MainHash
  \/ MainSweep
  \/ \E choice \in Choices : MainSelect(choice)
  \/ \E answer \in {"y", "Y", "n", ""} : MainConfirm(answer)
  \/ RemovePathsStep
  \/ Crash
  \/ MainHelperDone

SpecMain == InitMain /\ [][NextMain]_vars

----------------------------------------------------------------------------
(* The two programs that scan a directory *)

Init == InitApply \/ InitMain

Next == NextApply \/ NextMain

Spec == Init /\ [][Next]_vars

----------------------------------------------------------------------------
(* retry_upload: upload_file_with_retry and retry_failed_uploads *)

MaxRetries == 2
MaxItems == 3

\* an entry of failed_uploads.json as upload.py writes it
FailedItem(n) == [bucket |-> "images", local_path |-> n, storage_path |-> n]

LocalNames == {FA, FAB, FBB}

\* lists of different entries
FailedLists ==
  {l \in SeqsUpTo({FailedItem(n) : n \in LocalNames}, MaxItems) :
     \A i \in DOMAIN l : \A j \in DOMAIN l : i # j => l[i] # l[j]}

\* failed_uploads.json: not there, with its list, or without the key
FailedFiles ==
  {[kind |-> "absent"], [kind |-> "dict", fields |-> ("note" :> "none")]}
  \cup {[kind |-> "dict", fields |-> ("failed_uploads" :> l)] : l \in FailedLists}

\* json.load(f).get("failed_uploads", [])
LoadFailedUploads(file) ==
  IF "failed_uploads" \in DOMAIN file.fields THEN file.fields["failed_uploads"] ELSE <<>>

\* what upload() did: it returned, it raised, or it raised with a 403 or
\* "unauthorized" in the message
Outcomes == {"ok", "error", "auth"}

\* an authentication error retried like any other
AttemptResult_auth_retried(outcome, attempt, max_retries) ==
  IF outcome = "ok" THEN [returned |-> TRUE, success |-> TRUE, error |-> "None"]
  ELSE IF attempt < max_retries - 1
    THEN [returned |-> FALSE, success |-> FALSE, error |-> ""]
  ELSE [returned |-> TRUE, success |-> FALSE, error |-> "error_msg"]

\* the body of `for attempt in range(max_retries)` for one attempt
AttemptResult(outcome, attempt, max_retries) ==
  IF outcome = "ok" THEN [returned |-> TRUE, success |-> TRUE, error |-> "None"]
  ELSE IF outcome = "auth"
    THEN [returned |-> TRUE, success |-> FALSE, error |-> "Authentication error"]
  ELSE IF attempt < max_retries - 1
    THEN [returned |-> FALSE, success |-> FALSE, error |-> ""]
  ELSE [returned |-> TRUE, success |-> FALSE, error |-> "error_msg"]

\* the entry put in front of the list
StillFailed_prepended(still_failed, item, success) ==
  IF success THEN still_failed ELSE <<item>> \o still_failed

\* if not success: still_failed.append(item)
StillFailed(still_failed, item, success) ==
  IF success THEN still_failed ELSE Append(still_failed, item)

\* a call of upload_file_with_retry that has returned
Call(i, item, attempts, success, error) ==
  [index |-> i, item |-> item, attempts |-> attempts, success |-> success, error |-> error]

retryFrame == <<task, clusterVars, diskVars, deleteVars,
                is_dir, dhash, helper, threshold, applied, main>>

\* is_file, json.load, `if not failed_uploads`
RetryEnter ==
  /\ task = "retry"
  /\ retry.pc = "start"
  /\ retry' =
       IF retry.file.kind = "absent" THEN [retry EXCEPT !.pc = "done", !.exit = "1"]
       ELSE LET failed_uploads == LoadFailedUploads(retry.file)
            IN IF failed_uploads = <<>>
                 THEN [retry EXCEPT !.pc = "done", !.exit = "0"]
                 ELSE [retry EXCEPT !.pc = "item", !.failed_uploads = failed_uploads]
  /\ UNCHANGED retryFrame

\* the head of the loop: a local file that is not there, or the call of
\* upload_file_with_retry (whose loop has no pass when max_retries < 1)
RetryItem ==
  /\ task = "retry"
  /\ retry.pc = "item"
  /\ retry.i <= Len(retry.failed_uploads)
  /\ LET item == retry.failed_uploads[retry.i]
     IN retry' =
          IF InDir(item.local_path) \notin present
            THEN [retry EXCEPT !.still_failed = StillFailed(@, item, FALSE), !.i = @ + 1]
          ELSE IF retry.max_retries < 1
            THEN [retry EXCEPT !.still_failed = StillFailed(@, item, FALSE), !.i = @ + 1,
                               !.calls = Append(@, Call(retry.i, item, <<>>, FALSE,
                                                        "Failed after attempts"))]
          ELSE [retry EXCEPT !.pc = "attempt", !.attempt = 0, !.attempts = <<>>]
  /\ UNCHANGED retryFrame

\* one attempt of upload_file_with_retry and, when it returns, lines 76-77
UploadAttempt(outcome) ==
  /\ task = "retry"
  /\ retry.pc = "attempt"
  /\ LET item == retry.failed_uploads[retry.i]
         r == AttemptResult(outcome, retry.attempt, retry.max_retries)
         attempts == Append(retry.attempts, outcome)
     IN retry' =
          IF r.returned
            THEN [retry EXCEPT !.pc = "item", !.i = @ + 1, !.attempts = <<>>,
                               !.still_failed = StillFailed(@, item, r.success),
                               !.calls = Append(@, Call(retry.i, item, attempts,
                                                        r.success, r.error))]
            ELSE [retry EXCEPT !.attempt = @ + 1, !.attempts = attempts]
  /\ UNCHANGED retryFrame

\* after the loop: the file rewritten with still_failed, or renamed
RetryFinish ==
  /\ task = "retry"
  /\ retry.pc = "item"
  /\ retry.i > Len(retry.failed_uploads)
  /\ retry' =
       IF retry.still_failed # <<>>
         THEN [retry EXCEPT !.pc = "done", !.exit = "1",
                 !.file = [kind |-> "dict",
                           fields |-> ("failed_uploads" :> retry.still_failed)]]
         ELSE [retry EXCEPT !.pc = "done", !.exit = "0",
                 !.backup = retry.file, !.file = [kind |-> "absent"]]
  /\ UNCHANGED retryFrame

InitRetry ==
  /\ task = "retry"
  /\ NoCluster
  /\ NoDeletion
  /\ present \in {{InDir(n) : n \in LocalNames \ m} : m \in {{}, {FA}}}
  /\ locked = NoPaths /\ gone = NoPaths
  /\ sidecar = [kind |-> "absent"]
  /\ is_dir = FALSE /\ dhash = <<>> /\ helper = FALSE
  /\ threshold = 0 /\ applied = <<>> /\ main = NotStarted
  /\ \E file \in FailedFiles : \E max_retries \in 0..MaxRetries :
       retry = [NoRetry EXCEPT !.file = file, !.file0 = file,
                               !.max_retries = max_retries]

NextRetry ==
  \/ RetryEnter
  \/ RetryItem
  \/ \E outcome \in Outcomes : UploadAttempt(outcome)
  \/ RetryFinish

SpecRetry == InitRetry /\ [][NextRetry]_vars

----------------------------------------------------------------------------
(* Connected components, defined from the edge relation *)

Nodes(ps) == {p[1] : p \in Range(ps)} \cup {p[2] : p \in Range(ps)}

Linked(ps) == Range(ps) \cup {<<p[2], p[1]>> : p \in Range(ps)}

\* the pairs joined by a chain of one or more edges (Warshall)
RECURSIVE ChainsThrough(_, _)
ChainsThrough(ps, via) ==
  IF via = {} THEN Linked(ps)
  ELSE LET k == CHOOSE x \in via : TRUE
           R == ChainsThrough(ps, via \ {k})
       IN R \cup {ab \in Nodes(ps) \X Nodes(ps) : <<ab[1], k>> \in R /\ <<k, ab[2]>> \in R}

Chained(ps) == ChainsThrough(ps, Nodes(ps))

SameCluster(clusters, a, b) ==
  \E i \in DOMAIN clusters : a \in Range(clusters[i]) /\ b \in Range(clusters[i])

ExactComponents(clusters, ps) ==
  /\ \A i \in DOMAIN clusters : Cardinality(Range(clusters[i])) >= 2
  /\ \A a \in Pool : \A b \in Pool \ {a} :
       SameCluster(clusters, a, b) <=> <<a, b>> \in Chained(ps)
  /\ \A a \in Pool \ Nodes(ps) : ~SameCluster(clusters, a, a)

\* C1: find_connected_components (both implementations) returns exactly the
\* connected components with at least 2 members: two identifiers share a
\* cluster iff a chain of edges links them, and an identifier with no edge is
\* in no cluster.
C1_Components ==
  /\ "dfs" \in called => ExactComponents(clustersDfs, pairs)
  /\ "bfs" \in called => ExactComponents(clustersBfs, pairs)

\* A-B and B-C are edges, A-C is not, and the three share one cluster in both
\* results while a fourth identifier has no edge.
C1_Witness ==
  /\ "dfs" \in called /\ "bfs" \in called
  /\ \E a \in Pool : \E b \in Pool \ {a} : \E c \in Pool \ {a, b} :
       /\ <<a, b>> \in Linked(pairs) /\ <<b, c>> \in Linked(pairs)
       /\ <<a, c>> \notin Linked(pairs)
       /\ SameCluster(clustersDfs, a, c) /\ SameCluster(clustersBfs, a, c)
       /\ Pool \ Nodes(pairs) # {}

\* C3: the projected number of deletions of the sweep is non-decreasing in
\* the threshold.
C3_Monotone ==
  "sweep" \in called =>
    \A t1 \in DOMAIN results : \A t2 \in DOMAIN results :
      t1 < t2 => results[t1].to_delete <= results[t2].to_delete

\* a sweep over at least two thresholds where the count strictly grows
C3_Witness ==
  /\ "sweep" \in called
  /\ \E t1 \in DOMAIN results : \E t2 \in DOMAIN results :
       t1 < t2 /\ 0 < results[t1].to_delete
               /\ results[t1].to_delete < results[t2].to_delete


----------------------------------------------------------------------------
(* Claims about the deletion coordinator *)

Records(file) ==
  IF file.kind = "list" THEN Range(file.items)
  ELSE IF file.kind = "dict" /\ "images" \in DOMAIN file.fields
    THEN Range(file.fields["images"])
  ELSE {}

PrimaryFile(item) == Resolve(Web, item.path)

\* an invocation that got past load_image_json and was not killed
Batches == {k \in DOMAIN runs : runs[k].outcome # "crashed"
                                 /\ runs[k].sidecar0.kind \in {"list", "dict"}}

\* C4: after a deletion batch a record is in the sidecar iff its file was not
\* a delete candidate of the batch or could not be removed (is still on disk).
C4_RecordIffKept ==
  delete_files =>
    \A k \in Batches : \A item \in Records(runs[k].sidecar0) :
      item \in Records(runs[k].sidecar1)
        <=> (PrimaryFile(item) \notin targets \/ PrimaryFile(item) \in runs[k].present1)

\* C5: a file whose removal fails does not abort the batch: every record is
\* still attempted and the summary is returned.
C5_FailureDoesNotAbort ==
  \A k \in Batches :
    /\ runs[k].outcome = "returned"
    /\ runs[k].attempted = Len(load_image_json(runs[k].sidecar0).images)

\* C6 as stated: on the second application of a decision set whose files the
\* first one deleted, nothing more is deleted, no error is raised and every
\* target is reported missing.
C6_SecondRunReportsMissing ==
  (/\ Len(runs) >= 2 /\ delete_files
   /\ runs[1].outcome = "returned"
   /\ targets # {} /\ targets \subseteq runs[1].unlinked)
  => /\ runs[2].unlinked = {}
     /\ runs[2].outcome = "returned"
     /\ runs[2].summary.missing_files >= Cardinality(targets)

NothingDone(summary) ==
  summary.removed_from_json = 0 /\ summary.deleted_files = 0 /\ summary.missing_files = 0

\* C6 amended: an application that follows another of the same decision set
\* deletes no file; it raises only if the one before raised; and when it
\* returns, it has removed no record, left the sidecar alone and reports
\* 0 removed, 0 deleted and 0 missing (the targets' records are gone, so they
\* are not counted as missing).
C6_SecondRunIdle ==
  \A k \in DOMAIN runs :
    k > 1 =>
      /\ runs[k].unlinked = {}
      /\ runs[k].present1 = runs[k].present0
      /\ runs[k].outcome = "raised" => runs[k - 1].outcome = "raised"
      /\ runs[k].outcome = "returned" =>
           /\ NothingDone(runs[k].summary)
           /\ runs[k].writes = 0
           /\ runs[k].sidecar1 = runs[k].sidecar0

\* a first application deleted every target and rewrote the sidecar, and the
\* second one has returned
C6_Witness ==
  /\ Len(runs) >= 2 /\ delete_files
  /\ runs[1].outcome = "returned" /\ runs[1].writes = 1
  /\ targets # {} /\ targets \subseteq runs[1].unlinked
  /\ runs[2].outcome = "returned"

\* C7: a crash during the sidecar write leaves the complete old content or
\* the complete new content on disk.
C7_AtomicSidecarWrite ==
  rp.pc = "crashed" =>
    sidecar \in {run.sidecar0, save_image_json(rp.original_data, rp.kept_images)}

Kept(items) ==
  LET Stays(item) == ~should_remove(item) IN SelectSeq(items, Stays)

\* C10: a rewritten sidecar has the shape that was loaded: a bare list stays
\* a bare list; an object keeps every other top-level field and gets the
\* filtered list as its images.
C10_ShapePreserved ==
  \A k \in DOMAIN runs :
    (runs[k].outcome = "returned" /\ runs[k].writes > 0) =>
      LET old == runs[k].sidecar0
          new == runs[k].sidecar1
      IN IF old.kind = "list"
           THEN new.kind = "list" /\ new.items = Kept(old.items)
           ELSE /\ new.kind = "dict"
                /\ DOMAIN new.fields = DOMAIN old.fields
                /\ \A f \in DOMAIN old.fields \ {"images"} : new.fields[f] = old.fields[f]
                /\ new.fields["images"] = Kept(old.fields["images"])

\* an object-shaped sidecar was rewritten with one record removed and one kept
C10_Witness ==
  \E k \in DOMAIN runs :
    /\ runs[k].outcome = "returned" /\ runs[k].writes > 0
    /\ runs[k].sidecar0.kind = "dict"
    /\ runs[k].sidecar1.kind = "dict"
    /\ Len(runs[k].sidecar1.fields["images"]) = 1
    /\ Len(runs[k].sidecar0.fields["images"]) = 2

----------------------------------------------------------------------------
(* Claims about apply_threshold and main *)

\* C2: in the result of apply_threshold every cluster has one keeper, which
\* is a member of it and is not in to_delete, and every other member is in
\* to_delete; the decision set of the interactive script spares exactly one
\* member of every cluster, and that member is not handed to the helper.
C2_KeeperSpared ==
  /\ \A k \in DOMAIN applied :
       LET r == applied[k].result
       IN /\ Len(r.to_keep) = Len(r.clusters)
          /\ \A i \in DOMAIN r.clusters :
               /\ r.to_keep[i] \in Range(r.clusters[i])
               /\ r.to_keep[i] \notin Range(r.to_delete)
               /\ Range(r.clusters[i]) \ {r.to_keep[i]} \subseteq Range(r.to_delete)
  /\ main.pc \in {"confirm", "helper"} =>
       \A i \in DOMAIN results[main.chosen_threshold].clusters :
         LET c == Range(results[main.chosen_threshold].clusters[i])
         IN /\ Cardinality(c \ Range(main.to_delete)) = 1
            /\ main.pc = "helper" => Cardinality(c \ {q.name : q \in targets}) = 1

\* apply_threshold has returned a cluster of three
C2_Witness ==
  \E k \in DOMAIN applied : \E i \in DOMAIN applied[k].result.clusters :
    Len(applied[k].result.clusters[i]) = 3 /\ Len(applied[k].result.to_delete) = 2

\* main has handed the helper the decision set of a cluster of three
C2_WitnessMain == main.pc = "helper" /\ Len(main.to_delete) >= 2

\* the operator has not said yes to the deletion
NotConfirmed == main.pc \in {"start", "hash", "sweep", "select", "confirm"}
                \/ main.answer \notin {"y", "Y"}

\* C8: before the DELETE stage no file is removed and the sidecar is not
\* written; when the operator declines at the threshold prompt or at the
\* confirmation, the files and the sidecar are as they were at the start.
C8_ReadOnlyBeforeDelete ==
  NotConfirmed =>
    /\ present = main.present0
    /\ sidecar = main.sidecar0
    /\ rp.pc = "idle" /\ runs = <<>>

\* the operator chose a threshold with files to delete and then declined
C8_Witness ==
  /\ main.pc = "exit" /\ main.said = "Cancelled."
  /\ main.to_delete # <<>>
  /\ sidecar.kind = "list"

\* C9: on the same directory the dry run returns the clusters, to_delete and
\* to_keep of the destructive run, removes no file and counts 0 deleted and
\* 0 failed.
C9_DryRun ==
  \A j \in DOMAIN applied :
    ~applied[j].delete =>
      /\ applied[j].present1 = applied[j].present0
      /\ applied[j].result.deleted_count = 0
      /\ applied[j].result.failed_delete_count = 0
      /\ \A k \in DOMAIN applied :
           (applied[k].delete /\ applied[k].present0 = applied[j].present0) =>
             /\ applied[k].raised = applied[j].raised
             /\ applied[k].result.clusters = applied[j].result.clusters
             /\ applied[k].result.to_delete = applied[j].result.to_delete
             /\ applied[k].result.to_keep = applied[j].result.to_keep

\* a dry run, then a destructive run on the same files that deleted some
C9_Witness ==
  /\ Len(applied) >= 2
  /\ ~applied[1].delete /\ applied[2].delete
  /\ applied[2].present0 = applied[1].present0
  /\ applied[2].result.deleted_count > 0
  /\ applied[1].result.to_delete # <<>>

----------------------------------------------------------------------------
(* Claims about select_representative *)

\* the members of S of the least length
Shortest(S) == {x \in S : \A y \in S : Len(x) <= Len(y)}

\* C11: for a cluster (its members sorted, as find_connected_components
\* returns it) the keeper is a member of the least length, and among the
\* members of that length the lexicographically smallest.
C11_ShortestThenLexicographic ==
  ("select" \in called /\ members = Sorted(Range(members))) =>
    /\ keeper \in Shortest(Range(members))
    /\ \A y \in Shortest(Range(members)) \ {keeper} : StrLess(keeper, y)

\* a cluster whose first member is not its keeper, or whose shortest members tie
C11_Witness ==
  /\ "select" \in called /\ members = Sorted(Range(members))
  /\ \/ members = <<FAB, FB>> /\ keeper = FB
     \/ members = <<FAB, FCD>> /\ keeper = FAB

\* C12: select_representative returns the same keeper for every ordering of
\* the same set of members.
C12_OrderIndependent ==
  "select" \in called =>
    \A l \in MemberLists :
      Range(l) = Range(members) => select_representative(l) = keeper

----------------------------------------------------------------------------
(* Claims about the order of the returned clusters *)

\* the lists of pairs with the edges of ps, in any order and orientation
SameEdgeSet(ps) == {qs \in PairSeqs : Linked(qs) = Linked(ps)}

\* C13: find_connected_components returns the same list (order of the
\* clusters, order of the members) for every input with the same edge set,
\* whatever the order of the pairs and the orientation of each.
C13_OrderOfEdgesIrrelevant ==
  /\ "dfs" \in called =>
       \A qs \in SameEdgeSet(pairs) : find_connected_components_dfs(qs) = clustersDfs
  /\ "bfs" \in called =>
       \A qs \in SameEdgeSet(pairs) : find_connected_components_bfs(qs) = clustersBfs

----------------------------------------------------------------------------
(* Claims about the counts and the rewrite of the sidecar *)

NoneMatches(file) == \A item \in Records(file) : ~should_remove(item)

\* C14: the sidecar is written only if a record was removed; when no record
\* matches the decision set the sidecar is left as it was and no file is
\* unlinked.
C14_WriteOnlyIfRemoved ==
  /\ rp.pc \in {"open", "dump"} => rp.removed_count > 0
  /\ \A k \in DOMAIN runs :
       /\ runs[k].writes > 0 => runs[k].summary.removed_from_json > 0
       /\ NoneMatches(runs[k].sidecar0) =>
            /\ runs[k].writes = 0
            /\ runs[k].sidecar1 = runs[k].sidecar0
            /\ runs[k].unlinked = {}
            /\ runs[k].present1 = runs[k].present0

\* a call with deletion enabled and a decision set whose files are on disk
\* returned without a match in a sidecar that has records
C14_Witness ==
  \E k \in DOMAIN runs :
    /\ runs[k].outcome = "returned" /\ delete_files
    /\ targets # {} /\ targets \subseteq runs[k].present0
    /\ Records(runs[k].sidecar0) # {}
    /\ NoneMatches(runs[k].sidecar0)

\* the path-bearing fields of the removed records of an invocation
RemovedSlots(images) ==
  {sl \in (DOMAIN images) \X {"path", "thumbnail"} :
     should_remove(images[sl[1]]) /\ images[sl[1]][sl[2]] # Empty}

\* the files those fields name
RemovedFiles(images) ==
  {Resolve(Web, images[sl[1]][sl[2]]) : sl \in RemovedSlots(images)}

\* what C15 says of one invocation
CountsMatchDisk(r) ==
  LET images == load_image_json(r.sidecar0).images
  IN /\ r.outcome = "returned"
     /\ RemovedFiles(images) \cap r.present1 = {}
     /\ r.unlinked = RemovedFiles(images) \cap r.present0
     /\ r.summary.deleted_files = Cardinality(r.present0 \ r.present1)
     /\ r.summary.deleted_files + r.summary.missing_files
          = Cardinality(RemovedSlots(images))

\* C15: with deletion enabled every file of a removed record that is on disk
\* is deleted and counted in deleted_files, every one that is not is counted
\* in missing_files and is no error, and deleted_files is the number of files
\* the call removed from disk.
C15_CountsMatchDisk ==
  delete_files => \A k \in Batches : CountsMatchDisk(runs[k])

----------------------------------------------------------------------------
(* Claims about the direct deletion loops and the failures before them *)

\* the targets of a direct loop as resolved paths
Targets(to_delete) == {InDir(n) : n \in Range(to_delete)}

\* C16: in direct mode a target that is no longer on disk is no error: it is
\* not counted as a failed deletion and the other targets are still unlinked
\* (apply_threshold with delete, and the fallback loop of main).
C16_MissingTargetNoError ==
  /\ \A k \in DOMAIN applied :
       (applied[k].delete /\ applied[k].raised = "") =>
         LET r == applied[k].result
         IN /\ r.failed_delete_count
                 = Cardinality((Targets(r.to_delete) \cap locked) \ gone)
            /\ Targets(r.to_delete) \cap applied[k].present1 \subseteq locked
  /\ (/\ task = "main" /\ ~helper /\ main.pc = "exit"
      /\ main.answer \in {"y", "Y"}
      /\ Targets(main.to_delete) \cap locked = {})
     => /\ main.exit = "0"
        /\ Targets(main.to_delete) \cap present = {}

\* C17: a structural failure has no side effect: apply_threshold on a missing
\* directory raises and removes nothing; remove_paths_from_image_json on a
\* sidecar that is missing, is no JSON or has another shape raises with
\* nothing written and no file deleted, and main ends with the disk and the
\* sidecar as they were.
C17_StructuralFailureNoEffect ==
  /\ \A k \in DOMAIN applied :
       /\ ~is_dir => applied[k].raised = "NotADirectoryError"
       /\ applied[k].raised # "" => applied[k].present1 = applied[k].present0
  /\ \A k \in DOMAIN runs :
       runs[k].sidecar0.kind \notin {"list", "dict"} =>
         /\ runs[k].outcome = "raised"
         /\ runs[k].writes = 0 /\ runs[k].unlinked = {}
         /\ runs[k].sidecar1 = runs[k].sidecar0
         /\ runs[k].present1 = runs[k].present0
  /\ (helper /\ main.pc = "exit" /\ main.sidecar0.kind \notin {"list", "dict"}) =>
       present = main.present0 /\ sidecar = main.sidecar0

\* main was told to delete and the helper could not read the sidecar
C17_Witness ==
  /\ main.pc = "exit" /\ main.exit = "exception"
  /\ main.to_delete # <<>>
  /\ sidecar.kind = "malformed"
  /\ Len(runs) = 1 /\ runs[1].error = "JSONDecodeError"

\* apply_threshold raised on a path that is no directory
C17_WitnessApply ==
  \E k \in DOMAIN applied : applied[k].delete /\ applied[k].raised = "NotADirectoryError"

----------------------------------------------------------------------------
(* Claims about the boundary of 0 or 1 fingerprinted file *)

\* the scanned files of a directory that compute_dhash can read
Fingerprinted(files) == {n \in Range(ScanDir(files)) : compute_dhash(n) # Unreadable}

\* apply_threshold at the boundary: empty lists, nothing deleted, no exception
BoundaryOfApply ==
  \A k \in DOMAIN applied :
    (is_dir /\ Cardinality(Fingerprinted(applied[k].present0)) <= 1) =>
      /\ applied[k].raised = ""
      /\ applied[k].result.clusters = <<>>
      /\ applied[k].result.to_delete = <<>>
      /\ applied[k].result.deleted_count = 0
      /\ applied[k].present1 = applied[k].present0

\* main at the boundary
AtBoundary ==
  task = "main" /\ is_dir /\ Cardinality(Fingerprinted(main.present0)) <= 1

InvalidChoice ==
  main.said \in {"Invalid input or interrupted. Exiting.", "Invalid threshold."}

----------------------------------------------------------------------------
(* Claims about the cluster lists and the similarity graph *)

\* every cluster has two members or more, lists no identifier twice, and no
\* identifier is in two clusters
DisjointClusters(clusters) ==
  /\ \A i \in DOMAIN clusters :
       Len(clusters[i]) >= 2 /\ Cardinality(Range(clusters[i])) = Len(clusters[i])
  /\ \A i \in DOMAIN clusters : \A j \in DOMAIN clusters :
       i # j => Range(clusters[i]) \cap Range(clusters[j]) = {}

\* C19: in every cluster list returned for one threshold evaluation every
\* cluster has at least 2 members and every identifier is in at most one
\* cluster, once.
C19_DisjointClusters ==
  /\ "dfs" \in called => DisjointClusters(clustersDfs)
  /\ "bfs" \in called => DisjointClusters(clustersBfs)
  /\ "sweep" \in called => \A t \in DOMAIN results : DisjointClusters(results[t].clusters)

\* both implementations returned two clusters for edges that name a node twice
C19_Witness ==
  /\ "dfs" \in called /\ "bfs" \in called
  /\ Len(clustersDfs) = 2 /\ Len(clustersBfs) = 2
  /\ Len(pairs) = 3

\* the files of the map in either order, as a pair
OrderedPairs(hs) == {p \in (DOMAIN hs) \X (DOMAIN hs) : p[1] # p[2]}

\* C20: the similarity graph at threshold T has an edge between two different
\* fingerprinted files iff their Hamming distance is <= T; each unordered
\* pair is listed once at most and no file is paired with itself.
C20_EdgeIffWithinThreshold ==
  "sweep" \in called =>
    \A T \in Range(thresholds) :
      LET ps == SimilarPairs(hashes, T)
      IN /\ \A p \in OrderedPairs(hashes) :
              (p \in Linked(ps)) <=> (Hamming(hashes[p[1]], hashes[p[2]]) <= T)
         /\ \A k \in DOMAIN ps : ps[k][1] # ps[k][2]
         /\ \A k \in DOMAIN ps : \A l \in DOMAIN ps :
              k # l => {ps[k][1], ps[k][2]} # {ps[l][1], ps[l][2]}
         /\ results[T].clusters = find_connected_components_bfs(ps)

\* a sweep with a pair at distance exactly T, hence an edge, and a pair
\* further apart, hence none
C20_Witness ==
  /\ "sweep" \in called
  /\ \E T \in Range(thresholds) : \E p \in OrderedPairs(hashes) :
       \E q \in OrderedPairs(hashes) :
         /\ T > 0
         /\ Hamming(hashes[p[1]], hashes[p[2]]) = T
         /\ Hamming(hashes[q[1]], hashes[q[2]]) > T
         /\ p \in Linked(SimilarPairs(hashes, T))
         /\ q \notin Linked(SimilarPairs(hashes, T))

----------------------------------------------------------------------------
(* Claims about unreadable files *)

\* C21: an unreadable file gets no fingerprint and does not abort the scan:
\* the fingerprint map of main has an entry for exactly the scanned files
\* compute_dhash could read, and apply_threshold returns, clusters no
\* unreadable file and still clusters the readable files within the threshold.
C21_UnreadableSkipped ==
  /\ (task = "main" /\ main.pc \notin {"start", "hash"} /\ Len(main.files) >= 2) =>
       hashes = [f \in Fingerprinted(main.present0) |-> dhash[f]]
  /\ \A k \in DOMAIN applied :
       is_dir =>
         LET readable == Fingerprinted(applied[k].present0)
             clusters == applied[k].result.clusters
         IN /\ applied[k].raised = ""
            /\ \A i \in DOMAIN clusters : Range(clusters[i]) \subseteq readable
            /\ \A a \in readable : \A b \in readable \ {a} :
                 Hamming(dhash[a], dhash[b]) <= threshold => SameCluster(clusters, a, b)

\* main has hashed a directory with an unreadable file and two readable ones
C21_Witness ==
  /\ task = "main" /\ main.pc = "sweep"
  /\ Cardinality(DOMAIN hashes) >= 2
  /\ \E f \in Range(main.files) : dhash[f] = Unreadable

----------------------------------------------------------------------------
(* Claims about what the sidecar-aware helper leaves behind *)

\* C22: within one invocation the sidecar is rewritten at most once and only
\* after every deletion attempt, so when the invocation ends the sidecar and
\* the disk agree: no file was deleted whose record is still listed, and no
\* record was removed whose files are still on disk.
C22_SidecarAgreesWithDisk ==
  delete_files =>
    /\ rp.pc \in {"open", "dump"} => rp.i > Len(rp.images)
    /\ \A k \in Batches :
         /\ runs[k].writes <= 1
         /\ \A item \in Records(runs[k].sidecar1) :
              FilePaths(item) \cap runs[k].unlinked = {}
         /\ \A item \in Records(runs[k].sidecar0) \ Records(runs[k].sidecar1) :
              FilePaths(item) \cap runs[k].present1 = {}

\* the files a decision set may cost: the targets and the thumbnails of the
\* records whose primary path is a target
DecidedFiles(file) ==
  targets \cup {Resolve(Web, item.thumbnail) :
                  item \in {it \in Records(file) :
                              /\ it.path # Empty /\ it.thumbnail # Empty
                              /\ PrimaryFile(it) \in targets}}

\* C28: with deletion enabled every file the helper unlinks is a target or the
\* thumbnail of a record whose primary path is a target; a record matched by
\* its thumbnail or filename alone loses no primary file.
C28_OnlyDecidedFilesUnlinked ==
  delete_files =>
    \A k \in DOMAIN runs : runs[k].unlinked \subseteq DecidedFiles(runs[k].sidecar0)

----------------------------------------------------------------------------
(* Claims about the threshold the operator chooses *)

\* C23: whatever integer the operator enters is applied, swept or not: it is
\* never turned down, and the decision set is the one of the clusters computed
\* at exactly that threshold from the fingerprint map.
C23_AnyThresholdApplied ==
  (task = "main" /\ main.choice = "int") =>
    /\ main.said # "Invalid threshold."
    /\ main.to_delete
         = MainToDelete(find_connected_components_bfs(
                          SimilarPairs(hashes, main.chosen_threshold)))

\* C24: an invocation that got past the confirmation ends with its summary: no
\* failure of a deletion ends it without one (apply_threshold with delete
\* returns its result; main prints its counts and returns 0), a sidecar that
\* cannot be loaded aside.
C24_EndsWithSummary ==
  /\ \A k \in DOMAIN applied :
       (applied[k].delete /\ is_dir) => applied[k].raised = ""
  /\ (/\ task = "main" /\ main.pc = "exit" /\ main.answer \in {"y", "Y"}
      /\ helper => main.sidecar0.kind \in {"list", "dict"})
     => main.exit = "0"

----------------------------------------------------------------------------
(* Claims about the sweep's projection and the two traversals *)

\* the members of all clusters
Clustered(clusters) == UNION {Range(clusters[i]) : i \in DOMAIN clusters}

\* C25: the count the sweep projects for a threshold, the sum of (size - 1)
\* over its clusters, is the number of to_delete entries apply_threshold builds
\* at that threshold from the same fingerprints; to_keep has one entry per
\* cluster, and to_keep and to_delete partition the union of the clusters.
C25_ProjectionMatchesDecision ==
  "sweep" \in called =>
    \A thr \in DOMAIN results :
      LET clusters == find_connected_components_dfs(SimilarPairs(hashes, thr))
          lists == DecisionLists(clusters)
          keep == Range(lists.to_keep)
          drop == Range(lists.to_delete)
      IN /\ results[thr].to_delete = Len(lists.to_delete)
         /\ results[thr].to_delete
              = Cardinality(Clustered(results[thr].clusters)) - Len(results[thr].clusters)
         /\ Len(lists.to_keep) = Len(clusters)
         /\ Cardinality(keep) = Len(lists.to_keep)
         /\ Cardinality(drop) = Len(lists.to_delete)
         /\ keep \cap drop = {}
         /\ keep \cup drop = Clustered(clusters)

\* a sweep with a threshold that has a cluster of three or two clusters
C25_Witness ==
  /\ "sweep" \in called
  /\ \E thr \in DOMAIN results :
       /\ results[thr].to_delete >= 2
       /\ \E thr2 \in DOMAIN results : Len(results[thr2].clusters) >= 2

----------------------------------------------------------------------------
(* Claims about the counts of apply_threshold *)

\* the files a call of apply_threshold took from the disk
RemovedByCall(a) == (a.present0 \ gone) \ a.present1

\* C27: apply_threshold with delete tries every member of to_delete once:
\* deleted_count + failed_delete_count is the length of to_delete,
\* deleted_count is the number of files the call removed, every target that
\* is still on disk is one whose unlink failed, and no file outside to_delete
\* is removed.
C27_EveryTargetAttemptedOnce ==
  \A k \in DOMAIN applied :
    (applied[k].delete /\ applied[k].raised = "") =>
      LET r == applied[k].result
      IN /\ r.deleted_count + r.failed_delete_count = Len(r.to_delete)
         /\ Cardinality(Targets(r.to_delete)) = Len(r.to_delete)
         /\ r.deleted_count = Cardinality(RemovedByCall(applied[k]))
         /\ RemovedByCall(applied[k]) \subseteq Targets(r.to_delete)
         /\ Targets(r.to_delete) \cap applied[k].present1 \subseteq locked

\* a destructive call that removed one target and failed on another
C27_Witness ==
  \E k \in DOMAIN applied :
    /\ applied[k].delete
    /\ applied[k].result.deleted_count > 0
    /\ applied[k].result.failed_delete_count > 0

----------------------------------------------------------------------------
(* Claims about retry_upload *)

\* the attempts stop at the first success or authentication error
StopsAtFirstEnd(attempts) ==
  \A j \in DOMAIN attempts : j < Len(attempts) => attempts[j] = "error"

\* C29: upload_file_with_retry makes at most max_retries attempts, none after
\* the first success or the first authentication error, and returns success
\* exactly when an attempt succeeded; the number of attempts is bounded, so the
\* call returns.
C29_BoundedAttempts ==
  /\ \A k \in DOMAIN retry.calls :
       LET c == retry.calls[k]
       IN /\ Len(c.attempts) <= retry.max_retries
          /\ StopsAtFirstEnd(c.attempts)
          /\ c.success <=> "ok" \in Range(c.attempts)
  /\ retry.pc = "attempt" =>
       /\ Len(retry.attempts) < retry.max_retries
       /\ Range(retry.attempts) \subseteq {"error"}

\* calls that ended on a success after a failure, on an authentication error
\* and on the last attempt allowed
C29_Witness ==
  /\ \E k \in DOMAIN retry.calls : retry.calls[k].attempts = <<"error", "ok">>
  /\ \E k \in DOMAIN retry.calls : retry.calls[k].attempts = <<"auth">>

\* the entries of the list whose upload did not succeed in this run
FailedAgain ==
  LET uploaded == {retry.calls[k].index :
                     k \in {j \in DOMAIN retry.calls : "ok" \in Range(retry.calls[j].attempts)}}
      idx == {i \in DOMAIN retry.failed_uploads : i \notin uploaded}
      Pick(q, i) == IF i \in idx THEN Append(q, retry.failed_uploads[i]) ELSE q
      Walk[i \in 0..Len(retry.failed_uploads)] ==
        IF i = 0 THEN <<>> ELSE Pick(Walk[i - 1], i)
  IN Walk[Len(retry.failed_uploads)]

\* C30: retry_failed_uploads on a non-empty list: when an item failed again,
\* the file lists exactly the items that failed again, in their original
\* order, and 1 is returned; when none did, the file is renamed to its backup
\* and 0 is returned; an item that was uploaded is never left in the list.
C30_FileListsFailedAgain ==
  (retry.pc = "done" /\ retry.failed_uploads # <<>>) =>
    IF FailedAgain # <<>>
      THEN /\ retry.file = [kind |-> "dict", fields |-> ("failed_uploads" :> FailedAgain)]
           /\ retry.backup.kind = "absent"
           /\ retry.exit = "1"
      ELSE /\ retry.file.kind = "absent"
           /\ retry.backup = retry.file0
           /\ retry.exit = "0"

\* a run where one item was uploaded and two failed again
C30_Witness ==
  /\ retry.pc = "done"
  /\ Len(retry.still_failed) >= 2
  /\ Len(retry.still_failed) < Len(retry.failed_uploads)

\* a run where every item was uploaded
C30_WitnessRenamed ==
  retry.pc = "done" /\ retry.failed_uploads # <<>> /\ retry.backup.kind = "dict"

====
